---- MODULE Spec2Model ----
(***************************************************************************)
(* ClawBridge runner: discovery execution (src/src/openclaw.ts, the last   *)
(* revision in the file, lines 610-859) and the vault uploader             *)
(* (src/src/vault.ts).                                                     *)
(*                                                                         *)
(* Two specifications share the module:                                    *)
(*   SpecDiscover - executeDiscovery / executeViaCLI / runCLI together     *)
(*                  with the child processes and the Node event loop that  *)
(*                  delivers their data, exit, close, error and timer      *)
(*                  events;                                                *)
(*   SpecUpload   - uploadToVault with the validation gate and an HTTP     *)
(*                  endpoint that answers each POST arbitrarily.           *)
(***************************************************************************)
EXTENDS Integers, Sequences, FiniteSets, TLC

VARIABLES
    \* ---- discovery (openclaw.ts) ----
    job,         \* the DiscoveryJob handed to executeDiscovery
    installed,   \* environment: tools for which `which <tool>` succeeds
    agents,      \* environment: tools for which `agents list` names an agent
    pc,          \* position of executeDiscovery
    idx,         \* index into Chain of the tool being attempted
    tried,       \* history: tools whose availability check has run
    cli,         \* per tool: the child process and the runCLI closure
    result,      \* value returned by executeDiscovery
    \* ---- response parser alone (openclaw.ts) ----
    pjson,       \* what JSON.parse gave for the stdout under test
    psource,     \* the tool the stdout came from
    porig,       \* payload text before it was wrapped in a fence
    pphase,      \* "fresh", "parsed", "wrapped", "reparsed"
    pout,        \* what parseResult returned last
    pfirst,      \* what parseResult returned for the unwrapped payload
    \* ---- validation alone (validate.ts) ----
    vmin,        \* config.constraints.min_evidence, 0 when it is not set
    vdisk,       \* the schema file found on disk, or "absent"
    schema,      \* the module-level cache of loadSchema, "null" when empty
    vresults,    \* outcomes of the calls of validateFull so far, in order
    \* ---- run pipeline (run.ts) ----
    opts,        \* RunOptions and the output settings of the configuration
    rstage,      \* position of runSkill in Stages
    rsub,        \* step inside the stage
    rstatus,     \* "idle", "running", "done", "failed" (threw), "crashed"
    files,       \* the run files of the output directory, by run
    latest,      \* targets of latest.json and latest.md, 0 when no link
    todo,        \* cleanupOldRuns: files still to delete
    deleted,     \* cleanupOldRuns: files deleted, in order
    invoked,     \* the openclaw command was executed by this run
    written,     \* history: data handed to the write of the run's .json
    \* ---- avoid-list merge (Run Archiver) ----
    avoidList,   \* constraints.avoid_list of the configuration file
    runCands,    \* candidates of the run just completed, in run order
    backups,     \* backup copies of the configuration, oldest first
    apc,         \* "idle", "start", "backedup", "written", "failed"
    \* ---- one runCLI invocation against the clock (openclaw.ts) ----
    elapsed,     \* seconds since the spawn
    honours,     \* the tool exits on its own by the --timeout it was given
    trapsTerm,   \* the tool, or what it started, survives SIGTERM
    \* ---- scheduler (install-skill.ts) ----
    activeJob,   \* the CronJob is installed and started
    isRunning,   \* the module-level in-progress flag
    active,      \* runSkill calls started by the scheduler and not yet over
    nstarted,    \* runSkill calls started so far
    skipped,     \* cron ticks that returned without running
    refused,     \* triggerImmediateRun calls that threw "already in progress"
    ended,       \* origin and outcome of the run that ended last
    \* ---- upload (vault.ts) ----
    brief,       \* the ConnectionBrief handed to uploadToVault
    config,      \* vault part of the configuration
    upc,         \* position of uploadToVault
    attempt,     \* loop variable of the retry loop
    posts,       \* history: bodies of the POST requests sent
    responses,   \* history: what the endpoint answered to each POST
    sleeps,      \* history: backoff waits performed, in ms
    uresult      \* outcome of uploadToVault

dvars == <<job, installed, agents, pc, idx, tried, cli, result>>
uvars == <<brief, config, upc, attempt, posts, responses, sleeps, uresult>>
pvars == <<pjson, psource, porig, pphase, pout, pfirst>>
vvars == <<vmin, vdisk, schema, vresults>>
rvars == <<opts, rstage, rsub, rstatus, files, latest, todo, deleted,
          invoked, written>>
avars == <<avoidList, runCands, backups, apc>>
svars == <<elapsed, honours, trapsTerm>>
cvars == <<activeJob, isRunning, active, nstarted, skipped, refused, ended>>
vars  == <<dvars, uvars, pvars, vvars, rvars, avars, svars, cvars>>

\* what the steps of one part leave alone
exceptDiscover  == <<uvars, pvars, vvars, rvars, avars, svars, cvars>>
exceptUpload    == <<dvars, pvars, vvars, rvars, avars, svars, cvars>>
exceptParse     == <<dvars, uvars, vvars, rvars, avars, svars, cvars>>
exceptValidate  == <<dvars, uvars, pvars, rvars, avars, svars, cvars>>
exceptRun       == <<dvars, pvars, vvars, avars, svars, cvars>>
exceptAvoid     == <<dvars, uvars, pvars, vvars, rvars, svars, cvars>>
exceptSupervise == <<uvars, pvars, vvars, rvars, avars, cvars>>
exceptSchedule  == <<dvars, uvars, pvars, vvars, rvars, avars, svars>>

(***************************************************************************)
(* Bounds of the model.                                                    *)
(***************************************************************************)
\* stderr chunks a child may write
MaxStderr == 1
\* candidates carried by a brief
MaxCandidates == 2
\* evidence URLs carried by a candidate
MaxEvidence == 3
\* pieces of a payload text handed to the parser
MaxPieces == 3
\* calls of validateFull on one brief
MaxCalls == 3
\* run files left in the output directory by earlier runs
MaxPrior == 3
\* largest keep_runs setting
MaxKeep == 2
\* candidates of the run whose identifiers are merged
MaxMerged == 2
\* entries of the avoid list before the merge
MaxAvoid == 2
\* seconds of one runCLI invocation that are followed
MaxElapsed == 120
\* runSkill calls the scheduler starts
MaxStarted == 3
\* cron ticks skipped, and immediate runs refused
MaxTurnedAway == 2

(***************************************************************************)
(* Text.  A text is a sequence of pieces; JSON.parse is a function of the  *)
(* whole sequence, so that a truncated text does not parse.                *)
(***************************************************************************)

\* JSON documents an agent can put in its answer, keyed by their text.
DocOf(tok) ==
    CASE tok = "J2"  -> [candidates |-> <<"cand1", "cand2">>,
                         summary |-> <<[headline |-> "H", n |-> 0]>>,
                         searches |-> 3, pages |-> 5]
      [] tok = "J1"  -> [candidates |-> <<"cand1">>,
                         summary |-> <<>>, searches |-> 0, pages |-> 0]
      [] tok = "J0"  -> [candidates |-> <<>>,
                         summary |-> <<[headline |-> "H", n |-> 0]>>,
                         searches |-> 1, pages |-> 0]
      [] OTHER       -> [candidates |-> <<>>,
                         summary |-> <<>>, searches |-> 0, pages |-> 0]

\* pieces that are complete JSON documents with a "candidates" key
CandidateDocs == {"J2", "J1", "J0"}
\* pieces that are complete JSON documents
JsonDocs == CandidateDocs \cup {"JOK"}
\* pieces that open or close a fenced code block
Fences == {"FENCE", "FENCEJSON"}
\* a JSON document in three pieces: one of its string values holds a fence
SplitDoc == <<"J3a", "FENCE", "J3b">>

\* outcomes of a parsing step: a value, nothing, or a TypeError
NoValue == [ok |-> FALSE, threw |-> FALSE]
Value(d) == [ok |-> TRUE, threw |-> FALSE, doc |-> d]
MatchTypeError == [ok |-> FALSE, threw |-> TRUE]

\* what `payloads[0].text` can hold: a string, or a value of another type
Str(s) == [type |-> "string", s |-> s]
NonString(t) == [type |-> t, s |-> <<>>]

\* JSON.parse on a string
JsonParse(text) ==
    IF Len(text) = 1 /\ text[1] \in JsonDocs THEN Value(DocOf(text[1]))
    ELSE IF text = SplitDoc THEN Value(DocOf("J1"))
    ELSE NoValue

\* text.match(/```(?:json)?\s*([\s\S]*?)\s*```/): the pieces between the
\* first fence and the next one (lazy), or "no match"
FencedBlock(text) ==
    LET opens == {i \in 1..Len(text) : text[i] \in Fences}
    IN  IF opens = {} THEN [found |-> FALSE, body |-> <<>>]
        ELSE LET i == CHOOSE k \in opens : \A m \in opens : k <= m
                 closes == {j \in (i+1)..Len(text) : text[j] \in Fences}
             IN  IF closes = {} THEN [found |-> FALSE, body |-> <<>>]
                 ELSE LET j == CHOOSE k \in closes : \A m \in closes : k <= m
                      IN  [found |-> TRUE, body |-> SubSeq(text, i+1, j-1)]

\* text.match(/\{[\s\S]*"candidates"[\s\S]*\}/): greedy span from the first
\* opening brace to the last closing brace, with a "candidates" key inside
BraceSpan(text) ==
    LET opening == {i \in 1..Len(text) : text[i] \in JsonDocs \cup {"J3a"}}
        closing == {i \in 1..Len(text) : text[i] \in JsonDocs \cup {"J3b"}}
        keyed   == {i \in 1..Len(text) : text[i] \in CandidateDocs \cup {"J3a"}}
    IN  IF \E k \in keyed : \E c \in closing : k <= c
        THEN LET lo == CHOOSE k \in opening : \A m \in opening : k <= m
                 hi == CHOOSE k \in closing : \A m \in closing : k >= m
             IN  [found |-> TRUE, body |-> SubSeq(text, lo, hi)]
        ELSE [found |-> FALSE, body |-> <<>>]

\* mutant of extractJson: the direct parse only
extractJsonDirect(text) ==
    IF text.type = "number" THEN Value(DocOf("5"))
    ELSE IF text.type # "string" THEN MatchTypeError
    ELSE JsonParse(text.s)

\* extractJson: direct parse, then fenced block, then brace span.  JSON.parse
\* turns its argument into a string first, so a number parses; on any other
\* non-string the parse fails and `text.match` is not a function.
extractJson(text) ==
    IF text.type = "number" THEN Value(DocOf("5"))
    ELSE IF text.type # "string" THEN MatchTypeError
    ELSE IF JsonParse(text.s).ok THEN JsonParse(text.s)
    ELSE IF FencedBlock(text.s).found /\ JsonParse(FencedBlock(text.s).body).ok
         THEN JsonParse(FencedBlock(text.s).body)
    ELSE IF BraceSpan(text.s).found /\ JsonParse(BraceSpan(text.s).body).ok
         THEN JsonParse(BraceSpan(text.s).body)
    ELSE NoValue


(***************************************************************************)
(* Output of the agent tools.  A tool writes one of these scripts to its   *)
(* stdout, piece by piece, and may terminate at any point of it.           *)
(***************************************************************************)
Scripts == { <<>>, <<"junk">>, <<"E2a", "E2b">>, <<"E0">>, <<"E1F">>,
             <<"EOK">>, <<"ENULL">> }

\* what JSON.parse(stdout) can give: nothing (it threw), the value null,
\* another scalar or an array, or an object with its payloads (an absent
\* `payloads` reads like an empty one)
Unparsable == [ok |-> FALSE, kind |-> "none", payloads |-> <<>>]
JsonNull   == [ok |-> TRUE, kind |-> "null", payloads |-> <<>>]
JsonScalar == [ok |-> TRUE, kind |-> "scalar", payloads |-> <<>>]
JsonObject(ps) == [ok |-> TRUE, kind |-> "object", payloads |-> ps]

\* a payload of the envelope; `text` of type "undefined" is a missing text
Payload(text) == [text |-> text]

\* JSON.parse on the accumulated stdout
Envelope(stdout) ==
    CASE stdout = <<"E2a", "E2b">> -> JsonObject(<<Payload(Str(<<"J2">>))>>)
      [] stdout = <<"E0">>         -> JsonObject(<<Payload(Str(<<"J0">>))>>)
      [] stdout = <<"E1F">>        ->
             JsonObject(<<Payload(Str(<<"FENCEJSON", "J1", "FENCE">>))>>)
      [] stdout = <<"EOK">>        -> JsonObject(<<Payload(Str(<<"JOK">>))>>)
      [] stdout = <<"ENULL">>      -> JsonNull
      [] OTHER                     -> Unparsable

Null == [null |-> TRUE, threw |-> FALSE]
TypeError == [null |-> FALSE, threw |-> TRUE]

\* summary: data.summary || { headline: `Found ${n} candidates`, ... }
SummaryOf(data) ==
    IF data.summary # <<>> THEN data.summary[1]
    ELSE [headline |-> "Found", n |-> Len(data.candidates)]

\* parseResult from the outcome of its JSON.parse on: the catch, then
\* json.payloads?.[0]?.text ?? '', the extraction, the test of the
\* candidates and the result
resultOf(json, source) ==
    LET agentText ==
            IF /\ json.kind = "object"
               /\ Len(json.payloads) > 0
               /\ json.payloads[1].text.type \notin {"undefined", "null"}
            THEN json.payloads[1].text ELSE Str(<<>>)
        data == extractJson(agentText)
    IN  IF ~json.ok THEN Null
        ELSE IF json.kind = "null" THEN TypeError
        ELSE IF data.threw THEN TypeError
        ELSE IF ~data.ok \/ Len(data.doc.candidates) = 0 THEN Null
        ELSE [null |-> FALSE, threw |-> FALSE,
              candidates |-> data.doc.candidates,
              summary |-> SummaryOf(data.doc),
              searches_performed |-> data.doc.searches,
              pages_fetched |-> data.doc.pages,
              candidates_evaluated |-> Len(data.doc.candidates),
              completed |-> TRUE,
              source |-> source]

\* parseResult(stdout, source)
parseResult(stdout, source) == resultOf(Envelope(stdout), source)

(***************************************************************************)
(* The parser on its own: parseResult applied to an stdout, then to the    *)
(* same stdout with its first payload text put in a fenced code block.     *)
(***************************************************************************)
SeqsUpTo(S, n) == UNION {[1..k -> S] : k \in 0..n}

\* pieces of the payload texts under test
Pieces == {"J1", "J0", "JOK", "FENCE", "FENCEJSON", "txt", "J3a", "J3b"}

\* values of `payloads[0].text`
TextValues ==
    {Str(s) : s \in SeqsUpTo(Pieces, MaxPieces)}
      \cup {NonString(t) : t \in {"undefined", "null", "number", "object"}}

\* outcomes of JSON.parse(stdout)
ParsedStdouts ==
    {Unparsable, JsonNull, JsonScalar, JsonObject(<<>>)}
      \cup {JsonObject(<<Payload(t)>>) : t \in TextValues}
      \cup {JsonObject(<<Payload(t), Payload(Str(<<"J2">>))>>) : t \in TextValues}

\* "```json\n" + text + "\n```", or the same with a bare opening fence
Fenced(f, s) == <<f>> \o s \o <<"FENCE">>

ParseFirst ==
    /\ pphase = "fresh"
    /\ pout' = resultOf(pjson, psource)
    /\ pphase' = "parsed"
    /\ UNCHANGED <<pjson, psource, porig, pfirst>>

WrapPayload ==
    /\ pphase = "parsed"
    /\ pjson.kind = "object"
    /\ Len(pjson.payloads) > 0
    /\ pjson.payloads[1].text.type = "string"
    /\ \E f \in Fences :
          pjson' = [pjson EXCEPT !.payloads[1].text.s = Fenced(f, @)]
    /\ porig' = pjson.payloads[1].text
    /\ pfirst' = pout
    /\ pphase' = "wrapped"
    /\ UNCHANGED <<psource, pout>>

ParseWrapped ==
    /\ pphase = "wrapped"
    /\ pout' = resultOf(pjson, psource)
    /\ pphase' = "reparsed"
    /\ UNCHANGED <<pjson, psource, porig, pfirst>>

InitParseIdle ==
    /\ pjson = Unparsable
    /\ psource = "openclaw"
    /\ porig = Str(<<>>)
    /\ pphase = "idle"
    /\ pout = Null
    /\ pfirst = Null

\* getSimulatedResult()
SimulatedResult ==
    [null |-> FALSE,
     candidates |-> <<"Sarah Jenkins">>,
     summary |-> [headline |-> "Found 1 candidate (simulated)", n |-> 0],
     searches_performed |-> 0,
     pages_fetched |-> 0,
     candidates_evaluated |-> 1,
     source |-> "simulated"]

(***************************************************************************)
(* executeDiscovery: the fallback chain                                    *)
(***************************************************************************)
Chain == <<"openclaw", "clawdbot">>

\* the jobs buildDiscoveryJob composes, reduced to their mode
Jobs == [mode : {"smoke", "real"}]
Tools == {"openclaw", "clawdbot"}
Cur == Chain[idx]

Pending == [st |-> "pending", text |-> <<>>]

NoProc == [state |-> "none", script |-> <<>>, written |-> 0, pipe |-> <<>>,
           stdout |-> <<>>, stderr |-> 0, sigterm |-> FALSE,
           exitHow |-> "none", timer |-> "unset", promise |-> Pending,
           settles |-> 0, kills |-> 0]

\* mutant of Advance: the first failure ends the chain
AdvanceGiveUp(i) ==
    /\ pc' = "done"
    /\ idx' = i
    /\ result' = SimulatedResult

\* control falls out of the `if` of tool i: next tool, or simulated data
Advance(i) ==
    IF i < Len(Chain)
    THEN /\ pc' = "check"
         /\ idx' = i + 1
         /\ result' = result
    ELSE /\ pc' = "done"
         /\ idx' = i
         /\ result' = SimulatedResult

\* await checkCommand(tool)
CheckCommand ==
    /\ pc = "check"
    /\ tried' = tried \cup {Cur}
    /\ IF Cur \in installed
       THEN pc' = "agent" /\ idx' = idx /\ result' = result
       ELSE Advance(idx)
    /\ UNCHANGED <<job, installed, agents, cli>>

\* executeViaCLI: await getDefaultAgent(cli); null agent returns null
GetDefaultAgent ==
    /\ pc = "agent"
    /\ IF Cur \in agents
       THEN pc' = "spawn" /\ idx' = idx /\ result' = result
       ELSE Advance(idx)
    /\ UNCHANGED <<job, installed, agents, tried, cli>>


(***************************************************************************)
(* runCLI: one child process, its streams, the deadline timer and the      *)
(* promise that carries the outcome                                        *)
(***************************************************************************)

\* runCLI up to the return of the promise: spawn, attach the listeners,
\* arm the timer.  A spawn failure is reported later by an 'error' event.
Spawn ==
    /\ pc = "spawn"
    /\ \E s \in Scripts, ok \in BOOLEAN :
          cli' = [cli EXCEPT ![Cur] =
                     [NoProc EXCEPT !.state = IF ok THEN "running" ELSE "spawnfail",
                                    !.script = s,
                                    !.timer = "armed"]]
    /\ pc' = "await"
    /\ UNCHANGED <<job, installed, agents, idx, tried, result>>

\* the child writes the next piece of its output to the stdout pipe
ChildWriteStdout(t) ==
    /\ cli[t].state = "running"
    /\ cli[t].written < Len(cli[t].script)
    /\ cli' = [cli EXCEPT ![t].written = @ + 1,
                          ![t].pipe = Append(@, cli[t].script[cli[t].written + 1])]
    /\ UNCHANGED <<job, installed, agents, pc, idx, tried, result>>

\* proc.stdout.on('data'): stdout += text
StdoutData(t) ==
    /\ cli[t].state \in {"running", "exited"}
    /\ cli[t].pipe # <<>>
    /\ cli' = [cli EXCEPT ![t].stdout = Append(@, Head(cli[t].pipe)),
                          ![t].pipe = Tail(@)]
    /\ UNCHANGED <<job, installed, agents, pc, idx, tried, result>>

\* proc.stderr.on('data'): stderr += text (the child writes a progress line)
StderrData(t) ==
    /\ cli[t].state = "running"
    /\ cli[t].stderr < MaxStderr
    /\ cli' = [cli EXCEPT ![t].stderr = @ + 1]
    /\ UNCHANGED <<job, installed, agents, pc, idx, tried, result>>

\* ways a running child can terminate
ExitWays(p) ==
    {"code0", "code1", "signal"} \cup (IF p.sigterm THEN {"sigterm"} ELSE {})

\* the child terminates: on its own (zero or non-zero code), by a signal
\* from outside, or by the SIGTERM the timer sent
ChildExit(t) ==
    /\ cli[t].state = "running"
    /\ \E how \in ExitWays(cli[t]) :
          cli' = [cli EXCEPT ![t].state = "exited", ![t].exitHow = how]
    /\ UNCHANGED <<job, installed, agents, pc, idx, tried, result>>

\* mutant of Settle: a later resolve/reject replaces the outcome
SettleOverwrite(p, st, text) == [st |-> st, text |-> text]

\* resolve(text) / reject(err) on the promise of runCLI: the first call
\* decides, later calls have no effect
Settle(p, st, text) ==
    IF p.st = "pending" THEN [st |-> st, text |-> text] ELSE p

\* mutant of ClearTimeout: the handlers leave the timer alone
ClearTimeoutNoop(tm) == tm

\* clearTimeout(timer)
ClearTimeout(tm) == IF tm = "armed" THEN "cleared" ELSE tm

\* proc.on('close'): clear the timer; resolve with stdout when it is
\* non-empty, reject otherwise
OnClose(p) ==
    [p EXCEPT !.state = "closed",
              !.timer = ClearTimeout(@),
              !.settles = @ + 1,
              !.promise = IF p.stdout # <<>>
                          THEN Settle(@, "resolved", p.stdout)
                          ELSE Settle(@, "rejected", <<>>)]

\* proc.on('error'): clear the timer; reject
OnError(p) ==
    [p EXCEPT !.timer = ClearTimeout(@),
              !.settles = @ + 1,
              !.promise = Settle(@, "rejected", <<>>)]

\* 'close' is emitted once the process has ended and its streams are drained
Close(t) ==
    /\ cli[t].state \in {"exited", "failed"}
    /\ cli[t].pipe = <<>>
    /\ cli' = [cli EXCEPT ![t] = OnClose(@)]
    /\ UNCHANGED <<job, installed, agents, pc, idx, tried, result>>

\* 'error' is emitted because the process could not be spawned
SpawnError(t) ==
    /\ cli[t].state = "spawnfail"
    /\ cli' = [cli EXCEPT ![t] = [OnError(@) EXCEPT !.state = "failed"]]
    /\ UNCHANGED <<job, installed, agents, pc, idx, tried, result>>

\* the deadline timer fires: proc.kill('SIGTERM').  The signal is delivered
\* to a running child; kill does nothing once the child has exited.
TimerKill(t) ==
    /\ cli[t].timer = "armed"
    /\ cli[t].state \in {"running", "exited"}
    /\ cli' = [cli EXCEPT ![t].timer = "fired",
                          ![t].kills = @ + 1,
                          ![t].sigterm = (cli[t].state = "running")]
    /\ UNCHANGED <<job, installed, agents, pc, idx, tried, result>>

\* the deadline timer fires and the signal cannot be delivered (EPERM):
\* kill emits 'error' on the process object, which is still running
TimerKillError(t) ==
    /\ cli[t].timer = "armed"
    /\ cli[t].state = "running"
    /\ cli' = [cli EXCEPT ![t] = OnError([@ EXCEPT !.timer = "fired",
                                                   !.kills = @ + 1])]
    /\ UNCHANGED <<job, installed, agents, pc, idx, tried, result>>

\* executeViaCLI after `await runCLI(...)`, and the test of its result in
\* executeDiscovery
Await ==
    /\ pc = "await"
    /\ cli[Cur].promise.st # "pending"
    /\ LET parsed == parseResult(cli[Cur].promise.text, Cur)
           r == IF cli[Cur].promise.st = "resolved" /\ ~parsed.threw
                THEN parsed
                ELSE Null
       IN  IF ~r.null /\ Len(r.candidates) > 0
           THEN pc' = "done" /\ idx' = idx /\ result' = r
           ELSE Advance(idx)
    /\ UNCHANGED <<job, installed, agents, tried, cli>>

InitSuperviseIdle ==
    /\ elapsed = 0
    /\ honours = FALSE
    /\ trapsTerm = FALSE

InitScheduleIdle ==
    /\ activeJob = FALSE
    /\ isRunning = FALSE
    /\ active = {}
    /\ nstarted = 0
    /\ skipped = 0
    /\ refused = 0
    /\ ended = [origin |-> "none", outcome |-> "none"]

InitAvoidIdle ==
    /\ avoidList = <<>>
    /\ runCands = <<>>
    /\ backups = <<>>
    /\ apc = "idle"

InitRunIdle ==
    /\ opts = [upload |-> FALSE, dryRun |-> FALSE, keep_runs |-> 0,
               dirDotJson |-> FALSE]
    /\ rstage = 1
    /\ rsub = 0
    /\ rstatus = "idle"
    /\ files = <<>>
    /\ latest = [json |-> 0, md |-> 0]
    /\ todo = <<>>
    /\ deleted = <<>>
    /\ invoked = FALSE
    /\ written = <<>>

InitValidateIdle ==
    /\ vmin = 0
    /\ vdisk = "canonical"
    /\ schema = "null"
    /\ vresults = <<>>

InitUploadIdle ==
    /\ brief = [workspace_id |-> "ws", run_id |-> "r1",
                project_profile_hash |-> "h1", conforms |-> TRUE,
                candidates |-> <<>>]
    /\ config = [enabled |-> FALSE, key |-> ""]
    /\ upc = "idle"
    /\ attempt = 0
    /\ posts = <<>>
    /\ responses = <<>>
    /\ sleeps = <<>>
    /\ uresult = [kind |-> "none"]

InitDiscover ==
    /\ InitSuperviseIdle
    /\ InitScheduleIdle
    /\ InitAvoidIdle
    /\ InitRunIdle
    /\ InitParseIdle
    /\ InitValidateIdle
    /\ job \in Jobs
    /\ installed \in SUBSET Tools
    /\ agents \in SUBSET Tools
    /\ pc = "check"
    /\ idx = 1
    /\ tried = {}
    /\ cli = [t \in Tools |-> NoProc]
    /\ result = Null
    /\ InitUploadIdle

NextDiscover ==
    \/ (CheckCommand /\ UNCHANGED exceptDiscover)
    \/ (GetDefaultAgent /\ UNCHANGED exceptDiscover)
    \/ (Spawn /\ UNCHANGED exceptDiscover)
    \/ (Await /\ UNCHANGED exceptDiscover)
    \/ \E t \in Tools : (ChildWriteStdout(t) /\ UNCHANGED exceptDiscover)
    \/ \E t \in Tools : (StdoutData(t) /\ UNCHANGED exceptDiscover)
    \/ \E t \in Tools : (StderrData(t) /\ UNCHANGED exceptDiscover)
    \/ \E t \in Tools : (ChildExit(t) /\ UNCHANGED exceptDiscover)
    \/ \E t \in Tools : (Close(t) /\ UNCHANGED exceptDiscover)
    \/ \E t \in Tools : (SpawnError(t) /\ UNCHANGED exceptDiscover)
    \/ \E t \in Tools : (TimerKill(t) /\ UNCHANGED exceptDiscover)
    \/ \E t \in Tools : (TimerKillError(t) /\ UNCHANGED exceptDiscover)

SpecDiscover == InitDiscover /\ [][NextDiscover]_vars


(***************************************************************************)
(* Validation gate (validate.ts)                                           *)
(***************************************************************************)

\* evidence_urls missing from a candidate
NoUrls == -1

\* a candidate, reduced to the length of its evidence_urls
EvidenceCounts == {NoUrls} \cup (0..MaxEvidence)

\* sequences over S of length at most n
SeqUpTo(S, n) == SeqsUpTo(S, n)

\* the briefs handed to the uploader
Briefs ==
    [workspace_id : {"", " ", "ws"},
     run_id : {"", "r1"},
     project_profile_hash : {"", "h1"},
     conforms : BOOLEAN,
     candidates : SeqUpTo(EvidenceCounts, MaxCandidates)]

\* String.prototype.trim on the workspace ids of the model
Trim(str) == IF str = " " THEN "" ELSE str

\* the schema files a run can find on disk: the canonical one, and one
\* that accepts every brief
Schemas == {"canonical", "lax"}

\* ajv.compile(schemaObj)(brief): the verdict of a schema on the brief
validateAgainst(schemaObj, b) ==
    IF schemaObj = "lax" \/ b.conforms THEN [valid |-> TRUE, errors |-> <<>>]
    ELSE [valid |-> FALSE, errors |-> <<[path |-> "schema", at |-> 0]>>]

\* validateConnectionBrief, the canonical schema being loaded
validateConnectionBrief(b) == validateAgainst("canonical", b)

\* the evidence minimum written into validateHardRules
MinEvidence == 2

\* errors of the candidates 1..k, in order
RECURSIVE EvidenceErrors(_, _)
EvidenceErrors(cands, k) ==
    IF k = 0 THEN <<>>
    ELSE LET rest == EvidenceErrors(cands, k - 1)
         IN  IF cands[k] = NoUrls \/ cands[k] < MinEvidence
             THEN Append(rest, [path |-> "evidence_urls", at |-> k])
             ELSE rest

\* validateHardRules
validateHardRules(b) ==
    LET e1 == EvidenceErrors(b.candidates, Len(b.candidates))
        e2 == IF b.workspace_id = "" \/ Trim(b.workspace_id) = ""
              THEN <<[path |-> "workspace_id", at |-> 0]>> ELSE <<>>
        e3 == IF b.run_id = ""
              THEN <<[path |-> "run_id", at |-> 0]>> ELSE <<>>
        e4 == IF b.project_profile_hash = ""
              THEN <<[path |-> "project_profile_hash", at |-> 0]>> ELSE <<>>
        errors == e1 \o e2 \o e3 \o e4
    IN  [valid |-> errors = <<>>, errors |-> errors]

\* validateFull with schemaObj loaded: schema first, hard rules only for a
\* brief the schema accepts
validateFullWith(schemaObj, b) ==
    IF ~validateAgainst(schemaObj, b).valid THEN validateAgainst(schemaObj, b)
    ELSE validateHardRules(b)

\* validateFull, the canonical schema being loaded
validateFull(b) == validateFullWith("canonical", b)

\* mutant of loadSchema: the file is read at every call
loadSchemaFresh(cache, disk) == disk

\* loadSchema: the cached schema when there is one, else the file on disk;
\* "absent" stands for the throw of `schema not found`
loadSchema(cache, disk) == IF cache # "null" THEN cache ELSE disk

SchemaNotFound == [threw |-> TRUE, valid |-> FALSE, errors |-> <<>>]
Returned(r) == [threw |-> FALSE, valid |-> r.valid, errors |-> r.errors]

\* validateFull(brief), with the schema loading of validateConnectionBrief
ValidateCall ==
    /\ Len(vresults) < MaxCalls
    /\ LET schemaObj == loadSchema(schema, vdisk)
       IN  IF schemaObj = "absent"
           THEN /\ vresults' = Append(vresults, SchemaNotFound)
                /\ schema' = schema
           ELSE /\ schema' = schemaObj
                /\ vresults' = Append(vresults,
                      Returned(validateFullWith(schemaObj, brief)))
    /\ UNCHANGED <<vmin, vdisk>>

\* between two calls the schema file is installed, replaced or removed
SchemaFileChange ==
    /\ \E d \in Schemas \cup {"absent"} : d # vdisk /\ vdisk' = d
    /\ UNCHANGED <<vmin, schema, vresults>>

(***************************************************************************)
(* uploadToVault (vault.ts)                                                *)
(***************************************************************************)
\* mutant of maxRetries: one attempt more
maxRetriesFour == 3 + 1

maxRetries == 3

\* mutant of backoffMs: the same delay before every retry
backoffFlat(a) == 1000

\* backoffMs[attempt] || 9000
backoffMs(a) ==
    CASE a = 0 -> 1000
      [] a = 1 -> 3000
      [] a = 2 -> 9000
      [] OTHER -> 9000

\* HTTP statuses the endpoint answers with an error response
ErrorStatuses == {304, 400, 404, 429, 500, 503}

\* what one POST can come back with: a 2xx with data, a response with a
\* status outside 2xx and a body, or no response at all
Responses ==
    [kind : {"ok"}, status : {200}, error : {""}, message : {""},
     runId : {"r1"}, vaultUrl : {"url1", "url2"}]
    \cup
    [kind : {"http"}, status : ErrorStatuses, error : {"", "E"},
     message : {"", "M"}, runId : {""}, vaultUrl : {""}]
    \cup
    [kind : {"network"}, status : {0}, error : {""}, message : {""},
     runId : {""}, vaultUrl : {""}]

\* error.message of the axios error
AxiosMessage(r) ==
    IF r.kind = "network" THEN "Network Error"
    ELSE "Request failed with status code"

\* mutant of ErrorMessage: the server's body is ignored
ErrorMessageGeneric(r) == AxiosMessage(r)

\* response.data?.error || response.data?.message || error.message
ErrorMessage(r) ==
    IF r.error # "" THEN r.error
    ELSE IF r.message # "" THEN r.message
    ELSE AxiosMessage(r)

\* mutant of Terminal: only 400 is treated as a client error
TerminalOnly400(status) == status = 400

\* status >= 400 && status < 500 && status !== 429
Terminal(status) == status >= 400 /\ status < 500 /\ status # 429

\* mutant of Gate: the brief is uploaded without being validated
GateOpen(b) == TRUE

\* validation.valid of the brief, as tested before the upload
Gate(b) == validateFull(b).valid

Thrown(text, detail) == [kind |-> "throw", error |-> [text |-> text, detail |-> detail]]

\* uploadToVault up to the retry loop: vault switch, API key, validation
UploadStart ==
    /\ upc = "start"
    /\ IF ~config.enabled
       THEN upc' = "done" /\ uresult' = [kind |-> "null"]
       ELSE IF config.key = ""
       THEN upc' = "done" /\ uresult' = Thrown("Workspace API key required", "")
       ELSE IF ~Gate(brief)
       THEN upc' = "done" /\ uresult' = Thrown("Validation failed", "")
       ELSE upc' = "post" /\ uresult' = uresult
    /\ UNCHANGED <<brief, config, attempt, posts, responses, sleeps>>

\* one pass of the loop body: the POST, its answer, and the catch block up
\* to the backoff wait
Post ==
    /\ upc = "post"
    /\ attempt < maxRetries
    /\ \E r \in Responses :
        /\ posts' = Append(posts, [run |-> brief])
        /\ responses' = Append(responses, r)
        /\ IF r.kind = "ok"
           THEN /\ upc' = "done"
                /\ uresult' = [kind |-> "ok",
                               data |-> [runId |-> r.runId, vaultUrl |-> r.vaultUrl]]
                /\ UNCHANGED <<attempt, sleeps>>
           ELSE IF r.kind = "http" /\ Terminal(r.status)
           THEN /\ upc' = "done"
                /\ uresult' = Thrown("Upload failed", ErrorMessage(r))
                /\ UNCHANGED <<attempt, sleeps>>
           ELSE IF attempt < maxRetries - 1
           THEN /\ upc' = "sleep"
                /\ sleeps' = Append(sleeps, backoffMs(attempt))
                /\ UNCHANGED <<attempt, uresult>>
           ELSE /\ upc' = "done"
                /\ attempt' = attempt + 1
                /\ uresult' = Thrown("axios", AxiosMessage(r))
                /\ UNCHANGED sleeps
    /\ UNCHANGED <<brief, config>>

\* the backoff wait is over: attempt++ and the next pass
Wake ==
    /\ upc = "sleep"
    /\ attempt' = attempt + 1
    /\ upc' = "post"
    /\ UNCHANGED <<brief, config, posts, responses, sleeps, uresult>>

InitDiscoverIdle ==
    /\ job = [mode |-> "real"]
    /\ installed = {}
    /\ agents = {}
    /\ pc = "idle"
    /\ idx = 1
    /\ tried = {}
    /\ cli = [t \in Tools |-> NoProc]
    /\ result = Null

InitUpload ==
    /\ InitSuperviseIdle
    /\ InitScheduleIdle
    /\ InitAvoidIdle
    /\ InitRunIdle
    /\ InitParseIdle
    /\ InitValidateIdle
    /\ brief \in Briefs
    /\ config \in [enabled : BOOLEAN, key : {"", "k1"}]
    /\ upc = "start"
    /\ attempt = 0
    /\ posts = <<>>
    /\ responses = <<>>
    /\ sleeps = <<>>
    /\ uresult = [kind |-> "none"]
    /\ InitDiscoverIdle

NextUpload ==
    \/ (UploadStart /\ UNCHANGED exceptUpload)
    \/ (Post /\ UNCHANGED exceptUpload)
    \/ (Wake /\ UNCHANGED exceptUpload)

SpecUpload == InitUpload /\ [][NextUpload]_vars

(***************************************************************************)
(* The parser alone, on every outcome of JSON.parse(stdout) of the model   *)
(***************************************************************************)
InitParse ==
    /\ InitSuperviseIdle
    /\ InitScheduleIdle
    /\ InitAvoidIdle
    /\ InitRunIdle
    /\ InitValidateIdle
    /\ InitDiscoverIdle
    /\ InitUploadIdle
    /\ pjson \in ParsedStdouts
    /\ psource \in Tools
    /\ porig = Str(<<>>)
    /\ pphase = "fresh"
    /\ pout = Null
    /\ pfirst = Null

NextParse ==
    \/ (ParseFirst /\ UNCHANGED exceptParse)
    \/ (WrapPayload /\ UNCHANGED exceptParse)
    \/ (ParseWrapped /\ UNCHANGED exceptParse)

SpecParse == InitParse /\ [][NextParse]_vars

(***************************************************************************)
(* The validation gate alone: calls of validateFull on one brief           *)
(***************************************************************************)
\* values of config.constraints.min_evidence; 0 stands for "not set"
MinEvidenceSettings == 0..MaxEvidence

InitValidate ==
    /\ InitSuperviseIdle
    /\ InitScheduleIdle
    /\ InitAvoidIdle
    /\ InitRunIdle
    /\ InitDiscoverIdle
    /\ InitParseIdle
    /\ brief \in Briefs
    /\ config = [enabled |-> FALSE, key |-> ""]
    /\ upc = "idle"
    /\ attempt = 0
    /\ posts = <<>>
    /\ responses = <<>>
    /\ sleeps = <<>>
    /\ uresult = [kind |-> "none"]
    /\ vmin \in MinEvidenceSettings
    /\ vdisk \in Schemas \cup {"absent"}
    /\ schema = "null"
    /\ vresults = <<>>

NextValidate ==
    \/ (ValidateCall /\ UNCHANGED exceptValidate)
    \/ (SchemaFileChange /\ UNCHANGED exceptValidate)

SpecValidate == InitValidate /\ [][NextValidate]_vars

(***************************************************************************)
(* runSkill: discovery, the two artifacts, the latest links, the upload    *)
(* and the retention (run.ts)                                              *)
(***************************************************************************)

\* mutant of Stages: the links are made before the report is written
StagesLinksEarly == <<"discover", "json", "links", "md", "upload", "cleanup">>

\* the statements of runSkill from line 93 on, in order
Stages == <<"discover", "json", "md", "links", "upload", "cleanup">>

\* the run of this execution; earlier runs are 1..MaxPrior, and a run's
\* number orders the modification times of its files
cur == MaxPrior + 1
RunIds == 1..cur

FileStates == {"none", "partial", "complete"}
NoFiles == [json |-> "none", md |-> "none"]

StageIs(name) ==
    /\ rstatus = "running"
    /\ rstage <= Len(Stages)
    /\ Stages[rstage] = name

NextStage ==
    /\ rstage' = rstage + 1
    /\ rsub' = 0

\* mutant of DiscoveryCalled: the dry run asks the agent as well
DiscoveryCalledAlways(dryRun) == TRUE

\* if (dryRun) generateSampleBrief(...) else await executeDiscovery(...)
DiscoveryCalled(dryRun) == ~dryRun

\* generateSampleBrief: one candidate with two evidence URLs
generateSampleBrief ==
    [workspace_id |-> "ws", run_id |-> "r1", project_profile_hash |-> "h1",
     conforms |-> TRUE, candidates |-> <<2>>,
     run_metadata |-> [searches_performed |-> 15, duration_seconds |-> 0,
                       skill_version |-> "1.0.0"]]

\* the run_metadata a discovery comes back with: the defaults put in for
\* a result without metadata, or what the agent reported
DiscoveredMetadata ==
    {[searches_performed |-> 0, duration_seconds |-> 0, skill_version |-> "1.0.0"],
     [searches_performed |-> 8, duration_seconds |-> 4, skill_version |-> "agent"]}

\* briefs executeDiscovery resolves with: one that passes validation, one
\* with too little evidence, one the schema rejects
DiscoveredBriefs ==
    {[workspace_id |-> "ws", run_id |-> "r1", project_profile_hash |-> "h1",
      conforms |-> c, candidates |-> <<e>>, run_metadata |-> m] :
        c \in BOOLEAN, e \in {MinEvidence - 1, MinEvidence},
        m \in DiscoveredMetadata}

\* brief.run_metadata = {...}: the counters are kept, the duration is the
\* one measured by runSkill (1 here), the version is overwritten
BackfillMetadata(b) ==
    [b EXCEPT !.run_metadata =
        [searches_performed |-> @.searches_performed,
         duration_seconds |-> 1,
         skill_version |-> "1.0.0"]]

\* lines 93-109: the brief is obtained, then its run_metadata assigned;
\* executeDiscovery starts by executing `openclaw --version`
Discover ==
    /\ StageIs("discover")
    /\ IF DiscoveryCalled(opts.dryRun)
       THEN /\ invoked' = TRUE
            /\ \E b \in DiscoveredBriefs : brief' = BackfillMetadata(b)
       ELSE /\ invoked' = invoked
            /\ brief' = BackfillMetadata(generateSampleBrief)
    /\ NextStage
    /\ UNCHANGED <<written, opts, rstatus, files, latest, todo, deleted>>
    /\ UNCHANGED <<config, upc, attempt, posts, responses, sleeps, uresult>>

\* JSON.stringify(value, null, indent)
JsonStringify(value, indent) == [indent |-> indent, value |-> value]

\* mutant of BriefAfterReport: the report generator takes the candidates
\* out of the brief it is given as it lists them
BriefAfterReportSpliced(b) == [b EXCEPT !.candidates = <<>>]

\* generateMarkdownReport(brief, config) only reads the brief
BriefAfterReport(b) == b

\* fs.writeFileSync(path, data): the data is computed from the brief, the
\* file is created and filled ...
WriteBegin(kind) ==
    /\ StageIs(kind)
    /\ rsub = 0
    /\ files' = [files EXCEPT ![cur][kind] = "partial"]
    /\ rsub' = 1
    /\ written' = IF kind = "json"
                  THEN Append(written, JsonStringify(brief, 2))
                  ELSE written
    /\ brief' = IF kind = "md" THEN BriefAfterReport(brief) ELSE brief
    /\ UNCHANGED <<invoked, opts, rstage, rstatus, latest, todo, deleted>>
    /\ UNCHANGED <<config, upc, attempt, posts, responses, sleeps, uresult>>

\* ... and the call returns when all of it is written
WriteEnd(kind) ==
    /\ StageIs(kind)
    /\ rsub = 1
    /\ files' = [files EXCEPT ![cur][kind] = "complete"]
    /\ NextStage
    /\ UNCHANGED <<invoked, written, opts, rstatus, latest, todo, deleted>>

\* fs.writeFileSync throws, before or after it created the file: runSkill
\* has no handler and rejects
WriteFail(kind) ==
    /\ StageIs(kind)
    /\ rstatus' = "failed"
    /\ UNCHANGED <<invoked, written, opts, rstage, rsub, files, latest, todo, deleted>>

\* fs.existsSync follows the link: a link to a missing file "does not exist"
LinkExists(l) == latest[l] # 0 /\ files[latest[l]][l] # "none"

\* createLatestLinks, statement by statement; an exception ends it
createLatestLinks ==
    /\ StageIs("links")
    /\ CASE rsub \in {0, 1} ->
              LET l == IF rsub = 0 THEN "json" ELSE "md"
              IN  /\ latest' = IF LinkExists(l)
                               THEN [latest EXCEPT ![l] = 0] ELSE latest
                  /\ rsub' = rsub + 1
                  /\ rstage' = rstage
         [] rsub \in {2, 3} ->
              LET l == IF rsub = 2 THEN "json" ELSE "md"
              IN  IF latest[l] # 0
                  THEN \* EEXIST: the dangling link is still there
                       latest' = latest /\ NextStage
                  ELSE /\ latest' = [latest EXCEPT ![l] = cur]
                       /\ IF rsub = 3 THEN NextStage
                          ELSE rsub' = rsub + 1 /\ rstage' = rstage
    /\ UNCHANGED <<invoked, written, opts, rstatus, files, todo, deleted>>

\* a file-system call of createLatestLinks throws: caught and logged
LinksError ==
    /\ StageIs("links")
    /\ NextStage
    /\ UNCHANGED <<invoked, written, opts, rstatus, files, latest, todo, deleted>>

\* mutant of AfterUpload: the error of the upload is thrown on
AfterUploadRethrow(outcome) ==
    IF outcome.kind = "throw" THEN "failed" ELSE "running"

\* try { await uploadToVault(...) } catch { log }: the run goes on
AfterUpload(outcome) == "running"

\* if (options.upload && config.vault?.enabled && !dryRun)
UploadWanted == opts.upload /\ config.enabled /\ ~opts.dryRun

UploadStage ==
    /\ StageIs("upload")
    /\ rsub = 0
    /\ IF UploadWanted
       THEN upc' = "start" /\ rsub' = 1 /\ rstage' = rstage
       ELSE upc' = upc /\ NextStage
    /\ UNCHANGED <<invoked, written, opts, rstatus, files, latest, todo, deleted>>
    /\ UNCHANGED <<brief, config, attempt, posts, responses, sleeps, uresult>>

UploadSettled ==
    /\ StageIs("upload")
    /\ rsub = 1
    /\ upc = "done"
    /\ rstatus' = AfterUpload(uresult)
    /\ NextStage
    /\ UNCHANGED <<invoked, written, opts, files, latest, todo, deleted>>
    /\ UNCHANGED uvars

\* mutant of SortByMtime: oldest first
RECURSIVE SortByMtimeAscending(_)
SortByMtimeAscending(S) ==
    IF S = {} THEN <<>>
    ELSE LET m == CHOOSE x \in S : \A y \in S : x <= y
         IN  <<m>> \o SortByMtimeAscending(S \ {m})

\* .sort((a, b) => b.mtime - a.mtime): most recently modified first
RECURSIVE SortByMtime(_)
SortByMtime(S) ==
    IF S = {} THEN <<>>
    ELSE LET m == CHOOSE x \in S : \A y \in S : x >= y
         IN  <<m>> \o SortByMtime(S \ {m})

\* the run-*.json files of the directory
RunJsons(fs) == {r \in RunIds : fs[r].json # "none"}

\* mutant of toDelete: the slice is taken from the front of the list
toDeleteFront(fs, keepCount) ==
    SubSeq(SortByMtime(RunJsons(fs)), 1,
           IF keepCount <= Cardinality(RunJsons(fs))
           THEN keepCount ELSE Cardinality(RunJsons(fs)))

\* files.slice(keepCount)
toDelete(fs, keepCount) ==
    SubSeq(SortByMtime(RunJsons(fs)), keepCount + 1, Cardinality(RunJsons(fs)))

\* if (config.output?.keep_runs) cleanupOldRuns(...), up to its loop
CleanupStage ==
    /\ StageIs("cleanup")
    /\ rsub = 0
    /\ IF opts.keep_runs = 0
       THEN todo' = todo /\ NextStage
       ELSE todo' = toDelete(files, opts.keep_runs) /\ rsub' = 1 /\ rstage' = rstage
    /\ UNCHANGED <<invoked, written, opts, rstatus, files, latest, deleted>>

\* one pass of the loop of cleanupOldRuns: the .json, then the file named
\* by file.path.replace('.json', '.md') when it exists.  The replacement
\* hits the first ".json" of the whole path, which is in the directory part
\* when the output directory has one in its name.
CleanupOne ==
    /\ StageIs("cleanup")
    /\ rsub = 1
    /\ todo # <<>>
    /\ LET f == Head(todo)
       IN  /\ files' = [files EXCEPT ![f] =
                          [json |-> "none",
                           md |-> IF opts.dirDotJson THEN @.md ELSE "none"]]
           /\ deleted' = Append(deleted, f)
    /\ todo' = Tail(todo)
    /\ UNCHANGED <<invoked, written, opts, rstage, rsub, rstatus, latest>>

CleanupEnd ==
    /\ StageIs("cleanup")
    /\ rsub = 1
    /\ todo = <<>>
    /\ NextStage
    /\ UNCHANGED <<invoked, written, opts, rstatus, files, latest, todo, deleted>>

\* return brief
Return ==
    /\ rstatus = "running"
    /\ rstage = Len(Stages) + 1
    /\ rstatus' = "done"
    /\ UNCHANGED <<invoked, written, opts, rstage, rsub, files, latest, todo, deleted>>

\* the process dies (kill, power loss) wherever it is
Crash ==
    /\ rstatus = "running"
    /\ rstatus' = "crashed"
    /\ UNCHANGED <<invoked, written, opts, rstage, rsub, files, latest, todo, deleted>>

\* briefs a run works on once its run_metadata is assigned
RunBriefs ==
    {BackfillMetadata(b) : b \in DiscoveredBriefs \cup {generateSampleBrief}}

\* answers of the vault during a run
RunResponses ==
    {r \in Responses : /\ r.status \in {200, 400, 500}
                       /\ r.error = "" /\ r.message = ""
                       /\ r.vaultUrl \in {"", "url1"}}

\* what earlier runs left: for each, nothing, both files, or the .json only
PriorFiles ==
    {NoFiles, [json |-> "complete", md |-> "complete"],
     [json |-> "complete", md |-> "none"]}

InitRun ==
    /\ InitSuperviseIdle
    /\ InitScheduleIdle
    /\ InitAvoidIdle
    /\ InitDiscoverIdle
    /\ InitParseIdle
    /\ InitValidateIdle
    /\ brief = generateSampleBrief
    /\ config \in [enabled : BOOLEAN, key : {"", "k1"}]
    /\ upc = "idle"
    /\ attempt = 0
    /\ posts = <<>>
    /\ responses = <<>>
    /\ sleeps = <<>>
    /\ uresult = [kind |-> "none"]
    /\ opts \in [upload : BOOLEAN, dryRun : BOOLEAN, keep_runs : 0..MaxKeep,
                 dirDotJson : BOOLEAN]
    /\ rstage = 1
    /\ rsub = 0
    /\ rstatus = "running"
    /\ files \in {f \in [RunIds -> PriorFiles] : f[cur] = NoFiles}
    /\ \E l \in 0..MaxPrior : latest = [json |-> l, md |-> l]
    /\ todo = <<>>
    /\ deleted = <<>>
    /\ invoked = FALSE
    /\ written = <<>>

\* the uploader runs while runSkill awaits it
Uploading == StageIs("upload") /\ rsub = 1

NextRun ==
    \/ (Discover /\ UNCHANGED exceptRun)
    \/ \E kind \in {"json", "md"} : (WriteBegin(kind) /\ UNCHANGED exceptRun)
    \/ \E kind \in {"json", "md"} : (WriteEnd(kind) /\ UNCHANGED <<exceptRun, uvars>>)
    \/ \E kind \in {"json", "md"} : (WriteFail(kind) /\ UNCHANGED <<exceptRun, uvars>>)
    \/ (createLatestLinks /\ UNCHANGED <<exceptRun, uvars>>)
    \/ (LinksError /\ UNCHANGED <<exceptRun, uvars>>)
    \/ (UploadStage /\ UNCHANGED exceptRun)
    \/ (Uploading /\ UploadStart /\ UNCHANGED <<exceptRun, rvars>>)
    \/ (Uploading /\ Post /\ responses'[Len(responses')] \in RunResponses
                  /\ UNCHANGED <<exceptRun, rvars>>)
    \/ (Uploading /\ Wake /\ UNCHANGED <<exceptRun, rvars>>)
    \/ (UploadSettled /\ UNCHANGED exceptRun)
    \/ (CleanupStage /\ UNCHANGED <<exceptRun, uvars>>)
    \/ (CleanupOne /\ UNCHANGED <<exceptRun, uvars>>)
    \/ (CleanupEnd /\ UNCHANGED <<exceptRun, uvars>>)
    \/ (Return /\ UNCHANGED <<exceptRun, uvars>>)
    \/ (Crash /\ UNCHANGED <<exceptRun, uvars>>)

SpecRun == InitRun /\ [][NextRun]_vars

(***************************************************************************)
(* Avoid-list merge of the Run Archiver: updateAvoidList(brief,            *)
(* configPath), as the specification states it                             *)
(***************************************************************************)

\* mutant of Lower: identifiers are compared as written
LowerExact(str) == str

\* lower-casing of the identifiers of the model
Lower(str) ==
    CASE str \in {"Acme Corp", "ACME CORP", "acme corp"} -> "acme corp"
      [] str \in {"New Co", "new co"}                     -> "new co"
      [] OTHER                                             -> str

\* candidates of a run, reduced to their identifiers; "" is a missing one
MergeCandidates ==
    [name : {"Acme Corp", "ACME CORP", "New Co"},
     company : {"", "Acme Corp"},
     handle : {"", "@newco"}]

\* the identifiers of the candidates 1..k, in run order
RECURSIVE Identifiers(_, _)
Identifiers(cands, k) ==
    IF k = 0 THEN <<>>
    ELSE Identifiers(cands, k - 1)
           \o SelectSeq(<<cands[k].name, cands[k].company, cands[k].handle>>,
                        LAMBDA x : x # "")

\* list already holds id, case aside
Holds(list, id) == \E i \in 1..Len(list) : Lower(list[i]) = Lower(id)

\* the list after the identifiers 1..k were offered to it one by one
RECURSIVE Merged(_, _, _)
Merged(list, ids, k) ==
    IF k = 0 THEN list
    ELSE LET before == Merged(list, ids, k - 1)
         IN  IF Holds(before, ids[k]) THEN before ELSE Append(before, ids[k])

\* a timestamped copy of the configuration file is written
WriteBackup ==
    /\ apc = "start"
    /\ backups' = Append(backups, avoidList)
    /\ apc' = "backedup"
    /\ UNCHANGED <<avoidList, runCands>>

\* the configuration file is overwritten with the merged list
OverwriteConfig ==
    /\ apc = "backedup"
    /\ avoidList' = Merged(avoidList, Identifiers(runCands, Len(runCands)),
                           Len(Identifiers(runCands, Len(runCands))))
    /\ apc' = "written"
    /\ UNCHANGED <<runCands, backups>>

\* a read or write of the merge fails: logged, the run does not fail
MergeFailure ==
    /\ apc \in {"start", "backedup"}
    /\ apc' = "failed"
    /\ UNCHANGED <<avoidList, runCands, backups>>

\* avoid lists on disk: no two entries equal case aside
AvoidLists ==
    {l \in SeqsUpTo({"Acme Corp", "new co", "@newco"}, MaxAvoid) :
        \A i, j \in 1..Len(l) : i # j => l[i] # l[j]}

InitAvoid ==
    /\ InitSuperviseIdle
    /\ InitScheduleIdle
    /\ InitDiscoverIdle
    /\ InitParseIdle
    /\ InitValidateIdle
    /\ InitUploadIdle
    /\ InitRunIdle
    /\ avoidList \in AvoidLists
    /\ runCands \in SeqsUpTo(MergeCandidates, MaxMerged)
    /\ backups = <<>>
    /\ apc = "start"

NextAvoid ==
    \/ (WriteBackup /\ UNCHANGED exceptAvoid)
    \/ (OverwriteConfig /\ UNCHANGED exceptAvoid)
    \/ (MergeFailure /\ UNCHANGED exceptAvoid)

SpecAvoid == InitAvoid /\ [][NextAvoid]_vars

(***************************************************************************)
(* One runCLI invocation against the clock: the --timeout handed to the    *)
(* tool and the delay of the kill timer (openclaw.ts)                      *)
(***************************************************************************)

\* const TIMEOUT_SECONDS, passed to the tool as --timeout
TIMEOUT_SECONDS == 60

\* the delay given to setTimeout for the kill
KillDelayMs == TIMEOUT_SECONDS * 1000

\* the clock advances in steps of this many seconds
TickSeconds == 30

\* the kill timer is due
TimerDue == elapsed * 1000 >= KillDelayMs

\* time passes: not past a due timer that is still armed, and not past the
\* deadline of a tool that honours it and is still running
Tick ==
    /\ pc = "await"
    /\ elapsed + TickSeconds <= MaxElapsed
    /\ ~(cli[Cur].timer = "armed" /\ TimerDue)
    /\ (honours /\ cli[Cur].state = "running")
          => elapsed + TickSeconds <= TIMEOUT_SECONDS
    /\ elapsed' = elapsed + TickSeconds
    /\ UNCHANGED <<honours, trapsTerm>>

SvSpawn == Spawn /\ UNCHANGED <<svars, exceptSupervise>>
SvTick == Tick /\ UNCHANGED <<dvars, exceptSupervise>>
SvChildWrite == ChildWriteStdout(Cur) /\ UNCHANGED <<svars, exceptSupervise>>
SvStdoutData == StdoutData(Cur) /\ UNCHANGED <<svars, exceptSupervise>>
SvStderrData == StderrData(Cur) /\ UNCHANGED <<svars, exceptSupervise>>
SvClose == Close(Cur) /\ UNCHANGED <<svars, exceptSupervise>>
SvSpawnError == SpawnError(Cur) /\ UNCHANGED <<svars, exceptSupervise>>

\* the child ends on its own or by a signal from outside
SvOwnExit ==
    /\ ChildExit(Cur)
    /\ cli'[Cur].exitHow # "sigterm"
    /\ UNCHANGED <<svars, exceptSupervise>>

\* the child ends by the SIGTERM of the timer, unless it survives it
SvKilledExit ==
    /\ ~trapsTerm
    /\ ChildExit(Cur)
    /\ cli'[Cur].exitHow = "sigterm"
    /\ UNCHANGED <<svars, exceptSupervise>>

\* the timer callback runs when the delay is over
SvTimer ==
    /\ TimerDue
    /\ (TimerKill(Cur) \/ TimerKillError(Cur))
    /\ UNCHANGED <<svars, exceptSupervise>>

InitSupervise ==
    /\ InitScheduleIdle
    /\ InitAvoidIdle
    /\ InitRunIdle
    /\ InitValidateIdle
    /\ InitParseIdle
    /\ InitUploadIdle
    /\ job = [mode |-> "real"]
    /\ installed = {Chain[1]}
    /\ agents = {Chain[1]}
    /\ pc = "spawn"
    /\ idx = 1
    /\ tried = {Chain[1]}
    /\ cli = [t \in Tools |-> NoProc]
    /\ result = Null
    /\ elapsed = 0
    /\ honours \in BOOLEAN
    /\ trapsTerm \in BOOLEAN

NextSupervise ==
    \/ SvSpawn
    \/ SvTick
    \/ SvChildWrite
    \/ SvStdoutData
    \/ SvStderrData
    \/ SvOwnExit
    \/ SvKilledExit
    \/ SvClose
    \/ SvSpawnError
    \/ SvTimer

SpecSupervise == InitSupervise /\ [][NextSupervise]_vars

\* the event loop runs every handler that is due and time goes on; a child
\* that does not survive SIGTERM ends once it got it.  Nothing makes a
\* child end on its own.
SpecSuperviseFair ==
    /\ SpecSupervise
    /\ WF_vars(SvSpawn)
    /\ WF_vars(SvTick)
    /\ WF_vars(SvStdoutData)
    /\ WF_vars(SvKilledExit)
    /\ WF_vars(SvClose)
    /\ WF_vars(SvSpawnError)
    /\ WF_vars(SvTimer)

(***************************************************************************)
(* The scheduler: cron ticks, triggerImmediateRun and the in-progress flag *)
(* (install-skill.ts)                                                      *)
(***************************************************************************)

\* mutant of Busy: the flag is not looked at
BusyNever(flag) == FALSE

\* if (isRunning)
Busy(flag) == flag

\* mutant of FlagAfterRun: the flag is cleared only when runSkill returned
FlagAfterRunReturned(outcome) == outcome = "threw"

\* finally { isRunning = false }
FlagAfterRun(outcome) == FALSE

\* isRunning = true; await runSkill({...}) up to the await
StartRun(origin) ==
    /\ nstarted < MaxStarted
    /\ isRunning' = TRUE
    /\ nstarted' = nstarted + 1
    /\ active' = active \cup {[id |-> nstarted + 1, origin |-> origin]}

\* startScheduler: a running job is stopped, a new one is started
startScheduler ==
    /\ ~activeJob
    /\ activeJob' = TRUE
    /\ UNCHANGED <<isRunning, active, nstarted, skipped, refused, ended>>

\* stopScheduler: the job is stopped; a run in progress goes on
stopScheduler ==
    /\ activeJob
    /\ activeJob' = FALSE
    /\ UNCHANGED <<isRunning, active, nstarted, skipped, refused, ended>>

\* the onTick callback of the CronJob, up to its first await
CronTick ==
    /\ activeJob
    /\ IF Busy(isRunning)
       THEN /\ skipped < MaxTurnedAway
            /\ skipped' = skipped + 1
            /\ UNCHANGED <<isRunning, active, nstarted>>
       ELSE /\ StartRun("cron")
            /\ UNCHANGED skipped
    /\ UNCHANGED <<activeJob, refused, ended>>

\* triggerImmediateRun up to its await, or its throw
triggerImmediateRun ==
    /\ IF Busy(isRunning)
       THEN /\ refused < MaxTurnedAway
            /\ refused' = refused + 1
            /\ UNCHANGED <<isRunning, active, nstarted>>
       ELSE /\ StartRun("immediate")
            /\ UNCHANGED refused
    /\ UNCHANGED <<activeJob, skipped, ended>>

\* the awaited runSkill returns or throws: catch (cron only), finally
RunEnds ==
    \E r \in active, outcome \in {"returned", "threw"} :
        /\ active' = active \ {r}
        /\ isRunning' = FlagAfterRun(outcome)
        /\ ended' = [origin |-> r.origin, outcome |-> outcome]
        /\ UNCHANGED <<activeJob, nstarted, skipped, refused>>

InitSchedule ==
    /\ InitSuperviseIdle
    /\ InitAvoidIdle
    /\ InitRunIdle
    /\ InitValidateIdle
    /\ InitParseIdle
    /\ InitUploadIdle
    /\ InitDiscoverIdle
    /\ activeJob = FALSE
    /\ isRunning = FALSE
    /\ active = {}
    /\ nstarted = 0
    /\ skipped = 0
    /\ refused = 0
    /\ ended = [origin |-> "none", outcome |-> "none"]

NextSchedule ==
    \/ (startScheduler /\ UNCHANGED exceptSchedule)
    \/ (stopScheduler /\ UNCHANGED exceptSchedule)
    \/ (CronTick /\ UNCHANGED exceptSchedule)
    \/ (triggerImmediateRun /\ UNCHANGED exceptSchedule)
    \/ (RunEnds /\ UNCHANGED exceptSchedule)

SpecSchedule == InitSchedule /\ [][NextSchedule]_vars

(***************************************************************************)
(* Properties of the discovery engine                                      *)
(***************************************************************************)

\* tool t yielded the result that executeDiscovery returned
Produced(t) == ~result.null /\ result.source = t

\* C1: when executeDiscovery reports its outcome, every tool of the chain
\* has been attempted, except the tools that come after the one whose
\* result is returned: no outcome is reported while an untried tool remains
\* after a tool that was unavailable or gave nothing usable.
C1_FallbackBeforeOutcome ==
    pc = "done" =>
        \A j \in 1..Len(Chain) :
            \/ Chain[j] \in tried
            \/ \E i \in 1..(j - 1) : Produced(Chain[i])

\* C1 witness: openclaw was unavailable, clawdbot was attempted and its
\* result is the outcome
C1_Witness ==
    /\ pc = "done"
    /\ "openclaw" \notin installed
    /\ tried = Tools
    /\ Produced("clawdbot")

\* C2: when the chain is exhausted executeDiscovery fails; it never returns
\* a result that no tool of the chain produced.
C2_NoToolAvailableFails ==
    pc = "done" => (result.null \/ result.source \in Tools)

\* C3: at most one agent process is alive at any instant of a discover call.
C3_OneProcessAlive ==
    Cardinality({t \in Tools : cli[t].state = "running"}) <= 1

\* C4: once the child has terminated with non-empty accumulated stdout the
\* supervisor has returned exactly that stdout, however the child ended;
\* it has failed only if the child ended (or never started) with no stdout.
C4_SalvageStdout ==
    \A t \in Tools :
        /\ (cli[t].state = "closed" /\ cli[t].stdout # <<>>)
              => cli[t].promise = [st |-> "resolved", text |-> cli[t].stdout]
        /\ cli[t].promise.st = "rejected"
              => (cli[t].state \in {"closed", "failed"} /\ cli[t].stdout = <<>>)

\* C5: a result taken from a process that the deadline timer killed is
\* marked completed = false and carries the candidates that were written.
C5_TimeoutSalvageIncomplete ==
    \A t \in Tools :
        (pc = "done" /\ Produced(t) /\ cli[t].exitHow = "sigterm")
            => /\ result.completed = FALSE
               /\ result.candidates = parseResult(cli[t].stdout, t).candidates

RECURSIVE StatusesOf(_)
StatusesOf(rs) ==
    IF rs = <<>> THEN <<>> ELSE <<rs[1].status>> \o StatusesOf(Tail(rs))

\* C7: no POST is ever sent for a brief that validateFull rejects, and the
\* call, when it gets as far as validating, fails with the validation error.
C7_NoUploadOfInvalidBrief ==
    ~validateFull(brief).valid =>
        /\ posts = <<>>
        /\ (upc = "done" /\ config.enabled /\ config.key # "")
              => uresult = Thrown("Validation failed", "")

\* C7 witness: a schema-conforming brief with a hard-rule error was handed
\* to an enabled, keyed uploader and the call has failed
C7_Witness ==
    /\ upc = "done"
    /\ config.enabled /\ config.key # ""
    /\ brief.conforms
    /\ ~validateFull(brief).valid
    /\ uresult.kind = "throw"

\* the answer to the latest POST
LastResponse == responses[Len(responses)]

\* C8 as stated: a further POST follows a failed attempt only if that
\* attempt failed with a 5xx status, with 429, or without a response.
C8_RetryOnly5xx429Network ==
    [][(Len(posts') > Len(posts) /\ Len(posts) > 0) =>
          \/ LastResponse.kind = "network"
          \/ (LastResponse.kind = "http" /\ LastResponse.status = 429)
          \/ (LastResponse.kind = "http" /\ LastResponse.status >= 500)]_vars

\* C8 amended: a further POST follows a failed attempt only if that attempt
\* failed without a response or with a status that is not a 4xx other than
\* 429; a 4xx answer other than 429 ends the call at once, with a failure.
C8_RetryUnlessClientError ==
    /\ [][(Len(posts') > Len(posts) /\ Len(posts) > 0) =>
            \/ LastResponse.kind = "network"
            \/ /\ LastResponse.kind = "http"
               /\ \/ LastResponse.status = 429
                  \/ LastResponse.status < 400
                  \/ LastResponse.status >= 500]_vars
    /\ []((/\ responses # <<>>
           /\ LastResponse.kind = "http"
           /\ LastResponse.status \in 400..499
           /\ LastResponse.status # 429)
             => (upc = "done" /\ uresult.kind = "throw"))

\* C8 witness: a 429 was retried and the retry was answered 404, which
\* ended the call
C8_Witness ==
    /\ Len(responses) = 2
    /\ responses[1].status = 429
    /\ responses[2].status = 404
    /\ upc = "done"

\* C9: answers 500, 500, 200 give exactly three POSTs, waits of 1s and 3s,
\* and the data of the third answer as the successful result.
C9_SucceedsOnThirdAttempt ==
    (upc = "done" /\ StatusesOf(responses) = <<500, 500, 200>>) =>
        /\ Len(posts) = 3
        /\ sleeps = <<1000, 3000>>
        /\ uresult = [kind |-> "ok",
                      data |-> [runId |-> responses[3].runId,
                                vaultUrl |-> responses[3].vaultUrl]]

\* C9 witness: the endpoint answered 500, 500, 200 and the call returned
C9_Witness ==
    /\ upc = "done"
    /\ StatusesOf(responses) = <<500, 500, 200>>
    /\ uresult.kind = "ok"
    /\ uresult.data.vaultUrl = "url2"

\* C10: a first answer with a 4xx status other than 429 leaves exactly one
\* POST and no backoff wait, and the call fails with the server's message
\* (the body's error field, else its message field).
C10_ClientErrorFailsAtOnce ==
    (/\ responses # <<>>
     /\ responses[1].kind = "http"
     /\ responses[1].status \in 400..499
     /\ responses[1].status # 429) =>
        /\ Len(posts) = 1
        /\ sleeps = <<>>
        /\ upc = "done"
        /\ uresult.kind = "throw"
        /\ uresult.error.text = "Upload failed"
        /\ responses[1].error # "" => uresult.error.detail = responses[1].error
        /\ (responses[1].error = "" /\ responses[1].message # "")
              => uresult.error.detail = responses[1].message

\* C10 witness: the endpoint answered 404 with a message in its body
C10_Witness ==
    /\ Len(responses) = 1
    /\ responses[1].status = 404
    /\ responses[1].error = ""
    /\ responses[1].message = "M"
    /\ uresult.kind = "throw"
    /\ uresult.error.detail = "M"


\* the attempt answered by r failed transiently (5xx, 429, no response)
Transient(r) ==
    \/ r.kind = "network"
    \/ (r.kind = "http" /\ (r.status = 429 \/ r.status >= 500))

\* C11: at most three POSTs are made; when all three fail transiently the
\* call fails, having waited 1s and 3s between them and not after the third.
C11_ThreeAttemptsThenFail ==
    /\ Len(posts) <= 3
    /\ (/\ Len(responses) = 3
        /\ \A i \in 1..3 : Transient(responses[i]))
          => /\ upc = "done"
             /\ uresult.kind = "throw"
             /\ sleeps = <<1000, 3000>>

\* C11 witness: a 500, a 429 and a lost connection used up the budget
C11_Witness ==
    /\ upc = "done"
    /\ Len(posts) = 3
    /\ responses[1].status = 500
    /\ responses[2].status = 429
    /\ responses[3].kind = "network"
    /\ uresult.kind = "throw"


\* C20: in smoke mode, when the first tool of the chain answers with the
\* payload {"status":"ok"}, the run ends with that tool's result: no
\* candidates and a headline that says the pipeline check passed.
C20_SmokeAckIsSuccess ==
    (/\ job.mode = "smoke"
     /\ pc = "done"
     /\ cli[Chain[1]].promise = [st |-> "resolved", text |-> <<"EOK">>])
       => /\ ~result.null
          /\ result.source = Chain[1]
          /\ result.candidates = <<>>
          /\ result.summary.headline = "Smoke test passed"


\* C14: parseResult never throws: whatever the stdout held, it returns a
\* DiscoveryResult or null.
C14_ParserNeverThrows ==
    pphase \in {"parsed", "reparsed"} => ~pout.threw

\* C15: a JSON payload with a non-empty candidates array gives the same
\* DiscoveryResult inside a fenced code block as it gives bare.
C15_FencedParsesAlike ==
    (/\ pphase = "reparsed"
     /\ JsonParse(porig.s).ok
     /\ Len(JsonParse(porig.s).doc.candidates) > 0)
       => /\ ~pout.null
          /\ ~pout.threw
          /\ pout = pfirst

\* C15 witness: the payload whose text holds a fence of its own, wrapped
C15_Witness ==
    /\ pphase = "reparsed"
    /\ porig.s = SplitDoc
    /\ pjson.payloads[1].text.s = <<"FENCEJSON">> \o SplitDoc \o <<"FENCE">>
    /\ ~pout.null
    /\ pout.candidates = <<"cand1">>


\* the evidence minimum in force: config.constraints.min_evidence || 2
ConfiguredMinimum == IF vmin = 0 THEN 2 ELSE vmin

\* the rules as stated, for the minimum m
MeetsRules(b, m) ==
    /\ \A i \in 1..Len(b.candidates) :
          b.candidates[i] # NoUrls /\ b.candidates[i] >= m
    /\ Trim(b.workspace_id) # ""
    /\ b.run_id # ""
    /\ b.project_profile_hash # ""

\* C12: for a brief the canonical schema accepts, validation answers valid
\* exactly when every candidate has the configured minimum of evidence URLs
\* and the three identifiers are non-empty.
C12_ValidIffConfiguredMinimum ==
    \A i \in 1..Len(vresults) :
        (schema = "canonical" /\ brief.conforms /\ ~vresults[i].threw)
           => (vresults[i].valid <=> MeetsRules(brief, ConfiguredMinimum))

\* two calls that returned gave the same {valid, errors}
SameVerdicts ==
    \A i, j \in 1..Len(vresults) :
        (~vresults[i].threw /\ ~vresults[j].threw)
           => vresults[i] = vresults[j]

\* C13: calls of validateFull on the same brief return identical
\* {valid, errors}, and no call changes the brief.
C13_IdempotentAndPure ==
    /\ []SameVerdicts
    /\ [][brief' = brief]_vars

\* C13 witness: a brief the canonical schema rejects, validated twice, the
\* schema file having been replaced by a laxer one between the calls
C13_Witness ==
    /\ Len(vresults) = 2
    /\ schema = "canonical"
    /\ vdisk = "lax"
    /\ ~brief.conforms
    /\ ~vresults[1].valid /\ ~vresults[1].threw
    /\ ~vresults[2].threw


\* both artifacts of the current run are on disk, whole
ArtifactsWritten ==
    files[cur].json = "complete" /\ files[cur].md = "complete"

\* C16: latest.json and latest.md are touched only once both files of the
\* run are written, and whatever fails or crashes, no latest link ever
\* names a run with a partially written file.
C16_LatestOnlyAfterBothWritten ==
    /\ [](\A l \in {"json", "md"} :
             latest[l] # 0 =>
                /\ files[latest[l]].json # "partial"
                /\ files[latest[l]].md # "partial"
                /\ (latest[l] = cur => ArtifactsWritten))
    /\ [][latest' # latest => ArtifactsWritten]_vars

\* C16 witness: the process died between the two symlink calls
C16_Witness ==
    /\ rstatus = "crashed"
    /\ latest = [json |-> cur, md |-> 0]
    /\ ArtifactsWritten

\* the run files cleanupOldRuns found, those it left, and the keep-count
FoundJsons == RunJsons(files) \cup {deleted[i] : i \in 1..Len(deleted)}
KeptJsons == RunJsons(files)
Min(a, b) == IF a <= b THEN a ELSE b

\* the kept files are the c most recently modified of those found
KeptMostRecent(c) ==
    /\ Cardinality(KeptJsons) = c
    /\ \A a \in KeptJsons : \A i \in 1..Len(deleted) : a > deleted[i]

C18_ValidationFailureStopsUploadOnly ==
    ~validateFull(brief).valid =>
        /\ posts = <<>>
        /\ (rstatus = "failed" => rstage <= Len(Stages)
                                    /\ Stages[rstage] \in {"json", "md"})
        /\ (rstatus = "done" => ArtifactsWritten)
        /\ (rstatus = "done" /\ UploadWanted /\ config.key # ""
               => uresult = Thrown("Validation failed", ""))

\* C18 witness: an upload was asked for, the brief lacks evidence, the run
\* is over with both artifacts and no POST
C18_Witness ==
    /\ rstatus = "done"
    /\ UploadWanted
    /\ config.key # ""
    /\ brief.conforms
    /\ ~validateFull(brief).valid
    /\ uresult = Thrown("Validation failed", "")
    /\ posts = <<>>
    /\ ArtifactsWritten


\* spellings of one identifier that differ by case only
CaseVariants == {{"Acme Corp", "ACME CORP", "acme corp"}, {"New Co", "new co"}}
SameCaseAside(a, b) == a = b \/ \E c \in CaseVariants : a \in c /\ b \in c

\* id occurs in the list, case aside
Occurs(list, id) == \E i \in 1..Len(list) : SameCaseAside(list[i], id)

\* the list holds no identifier twice, case aside
NoRepeats(list) ==
    \A i, j \in 1..Len(list) : i # j => ~SameCaseAside(list[i], list[j])

\* sub is what remains of full when some of its entries are left out
RECURSIVE IsSubsequence(_, _)
IsSubsequence(sub, full) ==
    IF sub = <<>> THEN TRUE
    ELSE IF full = <<>> THEN FALSE
    ELSE IF Head(sub) = Head(full) THEN IsSubsequence(Tail(sub), Tail(full))
    ELSE IsSubsequence(sub, Tail(full))

\* the entries the merge added to the prior list
Added(prior) == SubSeq(avoidList, Len(prior) + 1, Len(avoidList))

\* C19: the merged list is the prior list, untouched, followed in run
\* order by the run's identifiers that it did not hold yet, case aside
\* (["Acme Corp"] with "Acme Corp" and "New Co" gives ["Acme Corp",
\* "New Co"]); and the configuration is overwritten only after a backup of
\* it was written.
C19_AvoidListMerge ==
    /\ [](apc = "written" =>
            LET prior == backups[Len(backups)]
                ids == Identifiers(runCands, Len(runCands))
            IN  /\ Len(avoidList) >= Len(prior)
                /\ SubSeq(avoidList, 1, Len(prior)) = prior
                /\ IsSubsequence(Added(prior), ids)
                /\ NoRepeats(avoidList)
                /\ \A i \in 1..Len(ids) : Occurs(avoidList, ids[i])
                /\ \A j \in (Len(prior) + 1)..Len(avoidList) :
                      /\ ~Occurs(prior, avoidList[j])
                      /\ \E i \in 1..Len(ids) :
                            /\ ids[i] = avoidList[j]
                            /\ \A h \in 1..(i - 1) :
                                  ~SameCaseAside(ids[h], ids[i]))
    /\ [][avoidList' # avoidList =>
            backups # <<>> /\ backups[Len(backups)] = avoidList]_vars

\* C19 witness: ["Acme Corp"], a run with "ACME CORP" then "New Co"
C19_Witness ==
    /\ apc = "written"
    /\ backups = << <<"Acme Corp">> >>
    /\ Len(runCands) = 2
    /\ runCands[1].name = "ACME CORP" /\ runCands[1].company = "Acme Corp"
    /\ runCands[2].name = "New Co"
    /\ avoidList[1] = "Acme Corp"
    /\ avoidList[2] = "New Co"


\* C24: when the envelope holds two payloads and the last one carries the
\* answer, the result is taken from the last one, whatever the first holds.
C24_LastPayloadAnswers ==
    (/\ pphase = "parsed"
     /\ pjson.kind = "object"
     /\ Len(pjson.payloads) = 2
     /\ pjson.payloads[2].text = Str(<<"J2">>))
       => /\ ~pout.null
          /\ ~pout.threw
          /\ pout.candidates = DocOf("J2").candidates

\* C25: in real mode, when the first tool of the chain answers with a
\* parseable payload that has no candidates, the run ends with that tool's
\* zero-candidate result.
C25_ZeroCandidatesReturned ==
    (/\ job.mode = "real"
     /\ pc = "done"
     /\ cli[Chain[1]].promise = [st |-> "resolved", text |-> <<"E0">>])
       => /\ ~result.null
          /\ result.source = Chain[1]
          /\ result.candidates = <<>>


\* C22: every runCLI invocation ends, with its promise resolved or
\* rejected, whatever the tool does.
C22_InvocationCompletes ==
    <>(cli[Chain[1]].promise.st # "pending")

\* C23: a tool that exits on its own by the --timeout it was given never
\* gets the SIGTERM of the supervisor.
C23_HonouringToolNotKilled ==
    honours => ~cli[Chain[1]].sigterm


\* the timer never fires twice, and it is not armed once 'close' or a spawn
\* error was handled
TimerCancelled ==
    \A t \in Tools :
        /\ cli[t].kills <= 1
        /\ cli[t].state \in {"closed", "failed"} => cli[t].timer # "armed"

\* C29 as stated: the timer is cancelled at 'close' and at a spawn error, so
\* proc.kill is called at most once and only on a child that has not exited.
C29_KillOnceNeverAfterExit ==
    /\ []TimerCancelled
    /\ [][\A t \in Tools :
            cli'[t].kills > cli[t].kills => cli[t].state = "running"]_vars

\* C29, amended: proc.kill is called at most once and only before 'close'
\* or 'error' was handled; the child may have exited by then, and the call
\* then delivers nothing.
C29_KillOnceBeforeClose ==
    /\ []TimerCancelled
    /\ [][\A t \in Tools :
            cli'[t].kills > cli[t].kills =>
               /\ cli[t].state \in {"running", "exited"}
               /\ cli[t].settles = 0
               /\ (cli[t].state = "exited" => ~cli'[t].sigterm)]_vars

\* C29 witness: the child exited with code 0 at the deadline, the timer
\* fired before 'close', and the invocation resolved
C29_Witness ==
    /\ cli[Chain[1]].state = "closed"
    /\ cli[Chain[1]].exitHow = "code0"
    /\ cli[Chain[1]].kills = 1
    /\ ~cli[Chain[1]].sigterm
    /\ cli[Chain[1]].timer = "fired"
    /\ cli[Chain[1]].promise.st = "resolved"


\* C26: at most one runSkill call of the scheduler is in progress; a cron
\* tick during a run is dropped and an immediate run during a run is
\* refused, and neither touches the run in progress.
C26_OneRunAtATime ==
    /\ [](Cardinality(active) <= 1)
    /\ [][(active # {} /\ (skipped' > skipped \/ refused' > refused))
             => /\ active' = active
                /\ nstarted' = nstarted
                /\ isRunning' = isRunning]_vars
    /\ [][nstarted' > nstarted => active = {}]_vars

\* C26 witness: during one run a tick was skipped and an immediate run
\* was refused
C26_Witness ==
    /\ Cardinality(active) = 1
    /\ nstarted = 1
    /\ skipped = 1
    /\ refused = 1

\* C28: once no run is in progress the flag is clear, whether the last run
\* returned or threw, and a tick can start the next run.
C28_FlagClearedAfterRun ==
    /\ [](active = {} => ~isRunning)
    /\ []((active = {} /\ activeJob /\ nstarted < MaxStarted)
             => ENABLED (CronTick /\ nstarted' = nstarted + 1))

\* C28 witness: an immediate run threw, and a cron tick then started a run
C28_Witness ==
    /\ ended = [origin |-> "immediate", outcome |-> "threw"]
    /\ nstarted = 2
    /\ \E r \in active : r.origin = "cron" /\ r.id = 2

\* C21: the uploader is entered, and a POST sent, only in a run with the
\* upload asked for, the vault enabled and no dry run; a dry run never
\* executes the agent tool.
C21_UploadAndAgentGated ==
    /\ (upc # "idle" \/ posts # <<>>)
           => (opts.upload /\ config.enabled /\ ~opts.dryRun)
    /\ opts.dryRun => ~invoked

\* C21 witness: a dry run with the upload asked for and the vault enabled
\* is over: both artifacts, no upload, no agent call
C21_Witness ==
    /\ rstatus = "done"
    /\ opts.dryRun /\ opts.upload /\ config.enabled /\ config.key # ""
    /\ ArtifactsWritten
    /\ upc = "idle"
    /\ posts = <<>>
    /\ ~invoked

\* C27: once the write of the run's .json has begun the brief is never
\* assigned again, and the run of every POST body is the value whose
\* serialisation was handed to that write.
C27_BriefFrozenOnceWritten ==
    /\ [][files[cur].json # "none" => brief' = brief]_vars
    /\ [](\A i \in 1..Len(posts) :
             /\ Len(written) = 1
             /\ posts[i].run = written[1].value)

\* C27 witness: a brief whose metadata the agent reported was given the
\* run's own metadata, written, reported on and posted twice
C27_Witness ==
    /\ rstatus = "done"
    /\ ArtifactsWritten
    /\ brief.run_metadata = [searches_performed |-> 8, duration_seconds |-> 1,
                             skill_version |-> "1.0.0"]
    /\ Len(posts) = 2
    /\ written = <<JsonStringify(brief, 2)>>

====
